---- MODULE Spec2Model ----
(***************************************************************************)
(* A model of src/app.rs: the todo list State (entries, filter, draft      *)
(* text, edit buffer), the Filter predicate, the State methods that        *)
(* address entries by their index in the filtered view, the App::update    *)
(* message handler with its store to local storage, and App::create with   *)
(* its restore from local storage.                                         *)
(***************************************************************************)
EXTENDS Naturals, Sequences, FiniteSets

\* ------------------------------------------------------------------ bounds

\* Longest entry sequence the State methods are applied to (StateSpec).
MaxEntries == 3

\* Longest backing sequence of the running application (Spec): Add stops
\* there, and no longer sequence is found in storage at start.
MaxTodos == 2

\* The texts a user can type into the draft input and the edit input.
Texts == {"", "a"}

\* The filtered indices a message or a method call can carry: every
\* in-range index and at least one out-of-range index for every list.
Indices == 0..MaxTodos
CallIndices == 0..MaxEntries

\* ------------------------------------------------------------------ data

KEY == "yew.todomvc.self"

Filter == {"All", "Active", "Completed"}

Entry == [description : Texts, completed : BOOLEAN, editing : BOOLEAN]

BoundedSeq(S, n) == UNION {[1..k -> S] : k \in 0..n}

VARIABLES
    entries,     \* State.entries : Vec<Entry>
    filter,      \* State.filter
    value,       \* State.value, the draft text of the new-todo input
    edit_value,  \* State.edit_value, the edit buffer
    storage,     \* the local storage area, a function of its keys
    crashed,     \* TRUE once a handler has panicked
    last,        \* history: the operation that produced this state
    prev         \* history: the state the operation started from

vars == <<entries, filter, value, edit_value, storage, crashed, last, prev>>

\* ------------------------------------------------------------------ Filter

fit(f, entry) ==
    CASE f = "All" -> TRUE
      [] f = "Active" -> ~entry.completed
      [] f = "Completed" -> entry.completed

\* ------------------------------------------------------------------ State

\* The absolute (1-based) positions of the entries that fit f, in backing
\* order: what .iter().enumerate().filter(..).collect() builds.
Matching(es, f) ==
    SelectSeq([k \in 1..Len(es) |-> k], LAMBDA k : fit(f, es[k]))

total(es) == Len(es)

total_completed(es) == Len(SelectSeq(es, LAMBDA e : fit("Completed", e)))

is_all_completed_without_peek(es, f) ==
    LET filtered == SelectSeq(es, LAMBDA e : fit(f, e))
    IN  \A k \in 1..Len(filtered) : filtered[k].completed

is_all_completed(es, f) ==
    LET filtered == SelectSeq(es, LAMBDA e : fit(f, e))
    IN  IF Len(filtered) = 0
        THEN FALSE
        ELSE \A k \in 1..Len(filtered) : filtered[k].completed

toggle_all_sets_true(es, f, v) ==
    [k \in 1..Len(es) |->
        IF fit(f, es[k]) THEN [es[k] EXCEPT !.completed = TRUE] ELSE es[k]]

toggle_all_every_entry(es, f, v) ==
    [k \in 1..Len(es) |-> [es[k] EXCEPT !.completed = v]]

toggle_all(es, f, v) ==
    [k \in 1..Len(es) |->
        IF fit(f, es[k]) THEN [es[k] EXCEPT !.completed = v] ELSE es[k]]

clear_completed_wrong_predicate(es) ==
    SelectSeq(es, LAMBDA e : fit("Completed", e))

clear_completed(es) == SelectSeq(es, LAMBDA e : fit("Active", e))

\* A method that unwraps entries.get(idx) either returns the new entries
\* (ok) or panics before it has changed anything (~ok).
Done(es) == [ok |-> TRUE, entries |-> es]
Panic(es) == [ok |-> FALSE, entries |-> es]

toggle_absolute_index(es, f, idx) ==
    IF idx < Len(es)
    THEN Done([es EXCEPT ![idx + 1].completed = ~@])
    ELSE Panic(es)

toggle(es, f, idx) ==
    LET m == Matching(es, f)
    IN  IF idx < Len(m)
        THEN Done([es EXCEPT ![m[idx + 1]].completed = ~@])
        ELSE Panic(es)

toggle_edit_absolute_index(es, f, idx) ==
    IF idx < Len(es)
    THEN Done([es EXCEPT ![idx + 1].editing = ~@])
    ELSE Panic(es)

toggle_edit(es, f, idx) ==
    LET m == Matching(es, f)
    IN  IF idx < Len(m)
        THEN Done([es EXCEPT ![m[idx + 1]].editing = ~@])
        ELSE Panic(es)

complete_edit(es, f, idx, val) ==
    LET m == Matching(es, f)
    IN  IF idx < Len(m)
        THEN Done([es EXCEPT ![m[idx + 1]] =
                      [description |-> val,
                       completed |-> @.completed,
                       editing |-> ~@.editing]])
        ELSE Panic(es)

RemoveAt(es, k) ==
    [j \in 1..(Len(es) - 1) |-> IF j < k THEN es[j] ELSE es[j + 1]]

remove_absolute_index(es, f, idx) ==
    IF idx < Len(es) THEN Done(RemoveAt(es, idx + 1)) ELSE Panic(es)

remove(es, f, idx) ==
    LET m == Matching(es, f)
    IN  IF idx < Len(m) THEN Done(RemoveAt(es, m[idx + 1])) ELSE Panic(es)

\* ------------------------------------------------------------------ storage

\* Json(&entries): the JSON text, one object of three literals per entry.
BoolText(b) == IF b THEN "true" ELSE "false"

SerializeEntry(e) ==
    [description |-> e.description,
     completed |-> BoolText(e.completed),
     editing |-> BoolText(e.editing)]

Serialize_without_editing(es) ==
    [k \in 1..Len(es) |->
        [description |-> es[k].description,
         completed |-> BoolText(es[k].completed),
         editing |-> "false"]]

Serialize(es) == [k \in 1..Len(es) |-> SerializeEntry(es[k])]

Deserialize_editing_skipped(text) ==
    IF \A k \in 1..Len(text) : text[k].completed \in {"true", "false"}
    THEN [ok |-> TRUE,
          entries |-> [k \in 1..Len(text) |->
                          [description |-> text[k].description,
                           completed |-> (text[k].completed = "true"),
                           editing |-> FALSE]]]
    ELSE [ok |-> FALSE, entries |-> <<>>]

\* Parsing the JSON text back: Err when a literal is no boolean.
Deserialize(text) ==
    IF \A k \in 1..Len(text) :
           /\ text[k].completed \in {"true", "false"}
           /\ text[k].editing \in {"true", "false"}
    THEN [ok |-> TRUE,
          entries |-> [k \in 1..Len(text) |->
                          [description |-> text[k].description,
                           completed |-> (text[k].completed = "true"),
                           editing |-> (text[k].editing = "true")]]]
    ELSE [ok |-> FALSE, entries |-> <<>>]

\* A storage slot: nothing stored, or a text.
Absent == [present |-> FALSE, text |-> <<>>]
Stored(text) == [present |-> TRUE, text |-> text]

\* Texts under KEY that are not the JSON of a Vec<Entry>.
Unreadable ==
    { <<[description |-> "a", completed |-> "yes", editing |-> "false"]>>,
      <<[description |-> "", completed |-> "true", editing |-> "1"]>> }

\* storage.restore(KEY)
restore(st) ==
    IF st[KEY].present
    THEN Deserialize(st[KEY].text)
    ELSE [ok |-> FALSE, entries |-> <<>>]

\* storage.store(KEY, Json(&entries))
store(st, es) == [st EXCEPT ![KEY] = Stored(Serialize(es))]

\* ------------------------------------------------------------------ history

Snapshot ==
    [entries |-> entries, filter |-> filter, value |-> value,
     edit_value |-> edit_value, storage |-> storage, crashed |-> crashed]

Op(name, idx, f, text, flag) ==
    [op |-> name, idx |-> idx, filter |-> f, text |-> text, flag |-> flag]

\* ------------------------------------------------------------------ App

\* App::create: the state after construction over a given storage area.
create(st) ==
    LET restored == restore(st)
    IN  [entries |-> IF restored.ok THEN restored.entries ELSE <<>>,
         filter |-> "All",
         value |-> "",
         edit_value |-> ""]

InitialStorage ==
    {[k \in {KEY} |-> Absent]}
    \cup {[k \in {KEY} |-> Stored(t)] : t \in Unreadable}
    \cup {[k \in {KEY} |-> Stored(Serialize(es))] : es \in BoundedSeq(Entry, MaxTodos)}

Init ==
    /\ storage \in InitialStorage
    /\ entries = create(storage).entries
    /\ filter = create(storage).filter
    /\ value = create(storage).value
    /\ edit_value = create(storage).edit_value
    /\ crashed = FALSE
    /\ last = Op("Init", 0, "All", "", FALSE)
    /\ prev = [entries |-> create(storage).entries, filter |-> "All",
               value |-> "", edit_value |-> "", storage |-> storage,
               crashed |-> FALSE]

\* A page reload: the component is created again over the same storage.
Create ==
    /\ entries' = create(storage).entries
    /\ filter' = create(storage).filter
    /\ value' = create(storage).value
    /\ edit_value' = create(storage).edit_value
    /\ crashed' = FALSE
    /\ last' = Op("Create", 0, "All", "", FALSE)
    /\ prev' = Snapshot
    /\ UNCHANGED storage

\* App::update ran its match arm to the end and stored the entries.
Handled(op, es, f, v, ev) ==
    /\ entries' = es
    /\ filter' = f
    /\ value' = v
    /\ edit_value' = ev
    /\ storage' = store(storage, es)
    /\ crashed' = FALSE
    /\ last' = op
    /\ prev' = Snapshot

\* App::update panicked in its match arm: nothing is stored.
Panicked(op, es, ev) ==
    /\ entries' = es
    /\ edit_value' = ev
    /\ crashed' = TRUE
    /\ last' = op
    /\ prev' = Snapshot
    /\ UNCHANGED <<filter, value, storage>>

Add_keeps_draft ==
    /\ ~crashed
    /\ Len(entries) < MaxTodos
    /\ Handled(Op("Add", 0, "All", "", FALSE),
               Append(entries, [description |-> value,
                                completed |-> FALSE,
                                editing |-> FALSE]),
               filter, value, edit_value)

Add_inserts_at_front ==
    /\ ~crashed
    /\ Len(entries) < MaxTodos
    /\ Handled(Op("Add", 0, "All", "", FALSE),
               <<[description |-> value,
                  completed |-> FALSE,
                  editing |-> FALSE]>> \o entries,
               filter, "", edit_value)

Add ==
    /\ ~crashed
    /\ Len(entries) < MaxTodos
    /\ Handled(Op("Add", 0, "All", "", FALSE),
               Append(entries, [description |-> value,
                                completed |-> FALSE,
                                editing |-> FALSE]),
               filter, "", edit_value)

Edit(idx) ==
    /\ ~crashed
    /\ LET r == complete_edit(entries, filter, idx, edit_value)
           op == Op("Edit", idx, "All", "", FALSE)
       IN  IF r.ok
           THEN Handled(op, r.entries, filter, value, "")
           ELSE Panicked(op, r.entries, edit_value)

Update(val) ==
    /\ ~crashed
    /\ Handled(Op("Update", 0, "All", val, FALSE),
               entries, filter, val, edit_value)

UpdateEdit(val) ==
    /\ ~crashed
    /\ Handled(Op("UpdateEdit", 0, "All", val, FALSE),
               entries, filter, value, val)

Remove(idx) ==
    /\ ~crashed
    /\ LET r == remove(entries, filter, idx)
           op == Op("Remove", idx, "All", "", FALSE)
       IN  IF r.ok
           THEN Handled(op, r.entries, filter, value, edit_value)
           ELSE Panicked(op, r.entries, edit_value)

SetFilter_leaves_edit_mode(f) ==
    /\ ~crashed
    /\ Handled(Op("SetFilter", 0, f, "", FALSE),
               [k \in 1..Len(entries) |-> [entries[k] EXCEPT !.editing = FALSE]],
               f, value, "")

SetFilter(f) ==
    /\ ~crashed
    /\ Handled(Op("SetFilter", 0, f, "", FALSE),
               entries, f, value, edit_value)

\* The edit buffer is seeded from entries[idx], indexed in the backing
\* sequence, before toggle_edit resolves idx in the filtered view.
ToggleEdit(idx) ==
    /\ ~crashed
    /\ LET op == Op("ToggleEdit", idx, "All", "", FALSE)
       IN  IF idx < Len(entries)
           THEN LET seeded == entries[idx + 1].description
                    r == toggle_edit(entries, filter, idx)
                IN  IF r.ok
                    THEN Handled(op, r.entries, filter, value, seeded)
                    ELSE Panicked(op, r.entries, seeded)
           ELSE Panicked(op, entries, edit_value)

ToggleAll_status_not_negated ==
    /\ ~crashed
    /\ LET status == is_all_completed(entries, filter)
       IN  Handled(Op("ToggleAll", 0, "All", "", status),
                   toggle_all(entries, filter, status),
                   filter, value, edit_value)

ToggleAll ==
    /\ ~crashed
    /\ LET status == ~is_all_completed(entries, filter)
       IN  Handled(Op("ToggleAll", 0, "All", "", status),
                   toggle_all(entries, filter, status),
                   filter, value, edit_value)

Toggle(idx) ==
    /\ ~crashed
    /\ LET r == toggle(entries, filter, idx)
           op == Op("Toggle", idx, "All", "", FALSE)
       IN  IF r.ok
           THEN Handled(op, r.entries, filter, value, edit_value)
           ELSE Panicked(op, r.entries, edit_value)

ClearCompleted ==
    /\ ~crashed
    /\ Handled(Op("ClearCompleted", 0, "All", "", FALSE),
               clear_completed(entries), filter, value, edit_value)

Nope ==
    /\ ~crashed
    /\ Handled(Op("Nope", 0, "All", "", FALSE),
               entries, filter, value, edit_value)

Next ==
    \/ Create
    \/ Add
    \/ \E idx \in Indices : Edit(idx)
    \/ \E val \in Texts : Update(val)
    \/ \E val \in Texts : UpdateEdit(val)
    \/ \E idx \in Indices : Remove(idx)
    \/ \E f \in Filter : SetFilter(f)
    \/ \E idx \in Indices : ToggleEdit(idx)
    \/ ToggleAll
    \/ \E idx \in Indices : Toggle(idx)
    \/ ClearCompleted
    \/ Nope

Spec == Init /\ [][Next]_vars

\* ------------------------------------------------------------------ State methods called directly

\* Every entry sequence and every filter, with nothing typed or stored.
StateInit ==
    /\ entries \in BoundedSeq(Entry, MaxEntries)
    /\ filter \in Filter
    /\ value = ""
    /\ edit_value = ""
    /\ storage = [k \in {KEY} |-> Absent]
    /\ crashed = FALSE
    /\ last = Op("Init", 0, "All", "", FALSE)
    /\ prev = [entries |-> entries, filter |-> filter, value |-> "",
               edit_value |-> "", storage |-> [k \in {KEY} |-> Absent],
               crashed |-> FALSE]

\* A method returned, or panicked, leaving r.entries behind.
Returned(op, r) ==
    /\ entries' = r.entries
    /\ crashed' = ~r.ok
    /\ last' = op
    /\ prev' = Snapshot
    /\ UNCHANGED <<filter, value, edit_value, storage>>

CallToggle(idx) ==
    /\ ~crashed
    /\ Returned(Op("toggle", idx, "All", "", FALSE),
                toggle(entries, filter, idx))

CallToggleEdit(idx) ==
    /\ ~crashed
    /\ Returned(Op("toggle_edit", idx, "All", "", FALSE),
                toggle_edit(entries, filter, idx))

CallCompleteEdit(idx, val) ==
    /\ ~crashed
    /\ Returned(Op("complete_edit", idx, "All", val, FALSE),
                complete_edit(entries, filter, idx, val))

CallRemove(idx) ==
    /\ ~crashed
    /\ Returned(Op("remove", idx, "All", "", FALSE),
                remove(entries, filter, idx))

CallToggleAll(v) ==
    /\ ~crashed
    /\ Returned(Op("toggle_all", 0, "All", "", v),
                Done(toggle_all(entries, filter, v)))

CallClearCompleted ==
    /\ ~crashed
    /\ Returned(Op("clear_completed", 0, "All", "", FALSE),
                Done(clear_completed(entries)))

StateNext ==
    \/ \E idx \in CallIndices : CallToggle(idx)
    \/ \E idx \in CallIndices : CallToggleEdit(idx)
    \/ \E idx \in CallIndices, val \in Texts : CallCompleteEdit(idx, val)
    \/ \E idx \in CallIndices : CallRemove(idx)
    \/ \E v \in BOOLEAN : CallToggleAll(v)
    \/ CallClearCompleted

StateSpec == StateInit /\ [][StateNext]_vars

\* ------------------------------------------------------------------ vocabulary of the properties

\* The filter predicate as the data model states it.
Matches(f, e) ==
    \/ f = "All"
    \/ f = "Active" /\ ~e.completed
    \/ f = "Completed" /\ e.completed

\* The number of entries of es in the view under f.
ViewLen(es, f) == Cardinality({k \in 1..Len(es) : Matches(f, es[k])})

\* Position k of es holds the entry shown at filtered index i under f: it
\* matches and exactly i matching entries come before it.
IsNth(es, f, k, i) ==
    /\ k \in 1..Len(es)
    /\ Matches(f, es[k])
    /\ Cardinality({j \in 1..(k - 1) : Matches(f, es[j])}) = i

\* The operation that led here was called with an index inside the view.
InRangeCall(name) ==
    /\ last.op = name
    /\ last.idx < ViewLen(prev.entries, prev.filter)

\* ------------------------------------------------------------------ C1

\* C1: toggle(i) with i inside the filtered view returns normally, flips
\* completed on the entry at filtered index i and on no other, and leaves
\* every description, every editing flag, the length and the order alone.
C1_ToggleFlipsTheFilteredEntry ==
    InRangeCall("toggle") =>
        /\ ~crashed
        /\ filter = prev.filter
        /\ Len(entries) = Len(prev.entries)
        /\ \E k \in 1..Len(prev.entries) :
               IsNth(prev.entries, prev.filter, k, last.idx)
        /\ \A k \in 1..Len(prev.entries) :
               entries[k] =
                   IF IsNth(prev.entries, prev.filter, k, last.idx)
                   THEN [description |-> prev.entries[k].description,
                         completed |-> ~prev.entries[k].completed,
                         editing |-> prev.entries[k].editing]
                   ELSE prev.entries[k]

\* The scenario of the specification: under Completed the first entry does
\* not match, toggle(0) has reached the second one and left the first.
C1_Witness ==
    /\ InRangeCall("toggle")
    /\ last.idx = 0
    /\ prev.filter = "Completed"
    /\ Len(prev.entries) >= 2
    /\ ~prev.entries[1].completed
    /\ prev.entries[2].completed
    /\ ~entries[2].completed
    /\ entries[1] = prev.entries[1]

\* ------------------------------------------------------------------ C2

\* C2: remove(i) with i inside the filtered view returns normally, makes
\* the sequence one shorter, deletes the entry at filtered index i, keeps
\* every entry before it in place and moves every entry after it down by
\* one, unchanged.
C2_RemoveDeletesTheFilteredEntry ==
    InRangeCall("remove") =>
        /\ ~crashed
        /\ filter = prev.filter
        /\ total(entries) + 1 = total(prev.entries)
        /\ \E k \in 1..Len(prev.entries) :
               /\ IsNth(prev.entries, prev.filter, k, last.idx)
               /\ \A j \in 1..(k - 1) : entries[j] = prev.entries[j]
               /\ \A j \in (k + 1)..Len(prev.entries) :
                      entries[j - 1] = prev.entries[j]

\* The scenario of the specification: active, completed, active under
\* Active; remove(1) has deleted the third entry and kept the first two.
C2_Witness ==
    /\ InRangeCall("remove")
    /\ last.idx = 1
    /\ prev.filter = "Active"
    /\ Len(prev.entries) = 3
    /\ ~prev.entries[1].completed
    /\ prev.entries[2].completed
    /\ ~prev.entries[3].completed
    /\ entries = <<prev.entries[1], prev.entries[2]>>

\* ------------------------------------------------------------------ C3

\* C3 as stated: after toggle_all(true), is_all_completed() under the same
\* filter is true when the view was not empty, and false before and after
\* when it was empty.
C3_AsStated ==
    (last.op = "toggle_all" /\ last.flag) =>
        IF ViewLen(prev.entries, prev.filter) > 0
        THEN is_all_completed(entries, filter)
        ELSE /\ ~is_all_completed(prev.entries, prev.filter)
             /\ ~is_all_completed(entries, filter)

\* C3 amended: after toggle_all(true), is_all_completed() under the same
\* filter is true when the view was not empty and the filter is All or
\* Completed; under Active it is false, the entries that matched having
\* left the view; and it is false before and after when the view was empty.
C3_ToggleAllThenIsAllCompleted ==
    (last.op = "toggle_all" /\ last.flag) =>
        /\ filter = prev.filter
        /\ IF ViewLen(prev.entries, prev.filter) > 0
           THEN is_all_completed(entries, filter) = (filter # "Active")
           ELSE /\ ~is_all_completed(prev.entries, prev.filter)
                /\ ~is_all_completed(entries, filter)

\* toggle_all(true) under Active has completed the two entries of a view
\* next to a completed entry outside it; the Active view is now empty and
\* is_all_completed() is false, as it was before.
C3_Witness ==
    /\ last.op = "toggle_all"
    /\ last.flag
    /\ prev.filter = "Active"
    /\ Len(prev.entries) = 3
    /\ ViewLen(prev.entries, prev.filter) = 2
    /\ ViewLen(entries, filter) = 0
    /\ \A k \in 1..Len(entries) : entries[k].completed
    /\ ~is_all_completed(prev.entries, prev.filter)
    /\ ~is_all_completed(entries, filter)

\* ------------------------------------------------------------------ C4

\* C4: when ToggleEdit(i) is handled with i inside the filtered view, the
\* edit buffer holds the description of the entry at filtered index i, the
\* entry whose editing flag the command has flipped.
C4_EditBufferSeededFromTheToggledEntry ==
    InRangeCall("ToggleEdit") =>
        \E k \in 1..Len(prev.entries) :
            /\ IsNth(prev.entries, prev.filter, k, last.idx)
            /\ entries[k].editing # prev.entries[k].editing
            /\ edit_value = prev.entries[k].description

\* ------------------------------------------------------------------ C5

\* C5: after Edit(i) with i inside the filtered view, the entry at filtered
\* index i has the edit buffer's text as description and editing = false,
\* whatever its editing flag was, and no other entry has changed.
C5_CompleteEditLeavesEditingFalse ==
    InRangeCall("Edit") =>
        /\ ~crashed
        /\ Len(entries) = Len(prev.entries)
        /\ \A k \in 1..Len(prev.entries) :
               entries[k] =
                   IF IsNth(prev.entries, prev.filter, k, last.idx)
                   THEN [description |-> prev.edit_value,
                         completed |-> prev.entries[k].completed,
                         editing |-> FALSE]
                   ELSE prev.entries[k]

\* ------------------------------------------------------------------ C6

IndexedCommands == {"Toggle", "ToggleEdit", "Edit", "Remove"}

\* The command that led here carried an index outside the filtered view.
OutOfRangeCommand ==
    /\ last.op \in IndexedCommands
    /\ last.idx >= ViewLen(prev.entries, prev.filter)

\* C6: a Toggle, ToggleEdit, Edit or Remove command with an index outside
\* the filtered view leaves the entries, the filter, the draft text and the
\* edit buffer exactly as they were.
C6_OutOfRangeMutatesNothing ==
    OutOfRangeCommand =>
        /\ entries = prev.entries
        /\ filter = prev.filter
        /\ value = prev.value
        /\ edit_value = prev.edit_value

\* ------------------------------------------------------------------ C7

\* C7: a Toggle, ToggleEdit, Edit or Remove command with an index outside
\* the filtered view is ignored: the application has not crashed and goes
\* on handling commands.
C7_OutOfRangeIsIgnored == OutOfRangeCommand => ~crashed

\* ------------------------------------------------------------------ C8

\* C8: clear_completed() keeps exactly the entries that are not completed,
\* unchanged and in their order, whatever the filter; afterwards
\* total_completed() is 0 and the filter is what it was.
C8_ClearCompletedKeepsTheActiveEntries ==
    last.op = "clear_completed" =>
        /\ ~crashed
        /\ filter = prev.filter
        /\ total_completed(entries) = 0
        /\ Len(entries) =
               Cardinality({k \in 1..Len(prev.entries) : ~prev.entries[k].completed})
        /\ \A j \in 1..Len(entries) :
               \E k \in 1..Len(prev.entries) :
                   /\ ~prev.entries[k].completed
                   /\ Cardinality({h \in 1..(k - 1) : ~prev.entries[h].completed}) = j - 1
                   /\ entries[j] = prev.entries[k]

\* clear_completed() under the Completed filter has dropped the completed
\* entry between two entries that are not completed, and kept those two.
C8_Witness ==
    /\ last.op = "clear_completed"
    /\ prev.filter = "Completed"
    /\ Len(prev.entries) = 3
    /\ ~prev.entries[1].completed
    /\ prev.entries[2].completed
    /\ ~prev.entries[3].completed
    /\ prev.entries[1] # prev.entries[3]
    /\ entries = <<prev.entries[1], prev.entries[3]>>

\* ------------------------------------------------------------------ C9

Commands ==
    {"Add", "Edit", "Update", "UpdateEdit", "Remove", "SetFilter",
     "ToggleAll", "ToggleEdit", "Toggle", "ClearCompleted", "Nope"}

\* C9: after every command that update has handled to its end, what is
\* stored under KEY reads back as the entry sequence in memory, with the
\* description, completed and editing of every entry.
C9_StoredEntriesEqualMemory ==
    (last.op \in Commands /\ ~crashed) =>
        /\ storage[KEY].present
        /\ restore(storage).ok
        /\ restore(storage).entries = entries

\* ToggleEdit has been handled, the stored text has changed with it, and
\* two entries are stored of which one is being edited and one completed.
C9_Witness ==
    /\ last.op = "ToggleEdit"
    /\ ~crashed
    /\ storage # prev.storage
    /\ Len(entries) = 2
    /\ \E k \in 1..2 : entries[k].editing /\ ~prev.entries[k].editing
    /\ \E k \in 1..2 : entries[k].completed
    /\ restore(storage).entries = entries

\* ------------------------------------------------------------------ C10

C11_ToggleAllSetsTheMatchingEntries ==
    last.op = "toggle_all" =>
        /\ ~crashed
        /\ filter = prev.filter
        /\ Len(entries) = Len(prev.entries)
        /\ \A k \in 1..Len(prev.entries) :
               /\ entries[k].description = prev.entries[k].description
               /\ entries[k].editing = prev.entries[k].editing
               /\ entries[k].completed =
                      IF Matches(prev.filter, prev.entries[k])
                      THEN last.flag
                      ELSE prev.entries[k].completed

\* toggle_all(false) under Completed has cleared the completed entry and
\* left the two entries outside the view, which were not completed, alone.
C11_Witness ==
    /\ last.op = "toggle_all"
    /\ ~last.flag
    /\ prev.filter = "Completed"
    /\ Len(prev.entries) = 3
    /\ ~prev.entries[1].completed
    /\ prev.entries[2].completed
    /\ ~prev.entries[3].completed
    /\ ~entries[2].completed
    /\ entries[1] = prev.entries[1]
    /\ entries[3] = prev.entries[3]

\* ------------------------------------------------------------------ C12

\* C12: is_all_completed() is true exactly when at least one entry matches
\* the filter and every matching entry is completed; it is false with no
\* entries, where total() is 0, and false whenever the view is empty.
C12_IsAllCompletedIffNonEmptyAndAllDone ==
    /\ is_all_completed(entries, filter) =
           /\ \E k \in 1..Len(entries) : Matches(filter, entries[k])
           /\ \A k \in 1..Len(entries) :
                  Matches(filter, entries[k]) => entries[k].completed
    /\ entries = <<>> =>
           /\ total(entries) = 0
           /\ \A f \in Filter : ~is_all_completed(entries, f)
    /\ ViewLen(entries, filter) = 0 => ~is_all_completed(entries, filter)

\* Entries exist, none of them is completed, and the view under Completed
\* is empty: is_all_completed() is false there.
C12_Witness ==
    /\ filter = "Completed"
    /\ Len(entries) = 2
    /\ ViewLen(entries, filter) = 0
    /\ ~is_all_completed(entries, filter)
    /\ is_all_completed(entries, "Active") = FALSE
    /\ last.op # "Init"

\* ------------------------------------------------------------------ C14

\* The positions at which two entry sequences of one length differ.
Changed(es, before) == {k \in 1..Len(before) : es[k] # before[k]}

\* C14: toggle_edit(i) with i inside the filtered view flips editing on the
\* entry at filtered index i, keeps its description and completed flag and
\* every other entry, and that entry is the one toggle(i) changes and
\* remove(i) deletes in the same state.
C14_ToggleEditAddressesTheSameEntry ==
    InRangeCall("toggle_edit") =>
        /\ ~crashed
        /\ filter = prev.filter
        /\ Len(entries) = Len(prev.entries)
        /\ \E k \in 1..Len(prev.entries) :
               /\ IsNth(prev.entries, prev.filter, k, last.idx)
               /\ entries[k] = [description |-> prev.entries[k].description,
                                completed |-> prev.entries[k].completed,
                                editing |-> ~prev.entries[k].editing]
               /\ Changed(entries, prev.entries) = {k}
               /\ LET t == toggle(prev.entries, prev.filter, last.idx)
                      r == remove(prev.entries, prev.filter, last.idx)
                  IN  /\ t.ok
                      /\ Changed(t.entries, prev.entries) = {k}
                      /\ r.ok
                      /\ Len(r.entries) + 1 = Len(prev.entries)
                      /\ \A j \in 1..Len(r.entries) :
                             r.entries[j] =
                                 prev.entries[IF j < k THEN j ELSE j + 1]

\* toggle_edit(1) under Active has passed over the completed second entry
\* and put the third entry into edit mode.
C14_Witness ==
    /\ InRangeCall("toggle_edit")
    /\ last.idx = 1
    /\ prev.filter = "Active"
    /\ Len(prev.entries) = 3
    /\ ~prev.entries[1].completed
    /\ prev.entries[2].completed
    /\ ~prev.entries[3].completed
    /\ ~prev.entries[3].editing
    /\ entries[3].editing
    /\ entries[1] = prev.entries[1]
    /\ entries[2] = prev.entries[2]

\* ------------------------------------------------------------------ C13

\* C13: the Add command appends one entry at the end of the backing
\* sequence, with the draft text (empty or not) as description, not
\* completed and not being edited; the entries that existed keep their
\* positions and fields, the filter is unchanged and the draft is empty.
C13_AddAppendsTheDraft ==
    last.op = "Add" =>
        /\ ~crashed
        /\ Len(entries) = Len(prev.entries) + 1
        /\ \A k \in 1..Len(prev.entries) : entries[k] = prev.entries[k]
        /\ entries[Len(entries)] =
               [description |-> prev.value, completed |-> FALSE, editing |-> FALSE]
        /\ filter = prev.filter
        /\ value = ""

\* Add under the Completed filter, where the new entry is not shown, has
\* appended the draft "a" after a completed entry that is being edited.
C13_Witness ==
    /\ last.op = "Add"
    /\ prev.filter = "Completed"
    /\ prev.value = "a"
    /\ Len(prev.entries) = 1
    /\ prev.entries[1].completed
    /\ prev.entries[1].editing
    /\ prev.entries[1].description = ""
    /\ Len(entries) = 2
    /\ entries[2].description = "a"
    /\ value = ""

\* ------------------------------------------------------------------ C16

\* C16: SetFilter(f) makes f the filter and changes nothing else: the
\* entries, total(), total_completed(), the draft text and the edit buffer
\* are what they were.
C16_SetFilterChangesOnlyTheFilter ==
    last.op = "SetFilter" =>
        /\ ~crashed
        /\ filter = last.filter
        /\ entries = prev.entries
        /\ total(entries) = total(prev.entries)
        /\ total_completed(entries) = total_completed(prev.entries)
        /\ value = prev.value
        /\ edit_value = prev.edit_value

\* SetFilter(Active) has replaced the filter Completed over two entries,
\* one completed and one being edited, with text in both inputs.
C16_Witness ==
    /\ last.op = "SetFilter"
    /\ last.filter = "Active"
    /\ prev.filter = "Completed"
    /\ filter = "Active"
    /\ Len(entries) = 2
    /\ entries[1].completed
    /\ entries[2].editing
    /\ value = "a"
    /\ edit_value = "a"

\* ------------------------------------------------------------------ C18

\* C18: the ToggleAll command sets completed of every entry matching the
\* filter to the negation of what is_all_completed() was before it, and
\* leaves the other entries unchanged; so under All with entries present,
\* is_all_completed() after the command is the negation of its value before.
C18_ToggleAllNegatesIsAllCompleted ==
    last.op = "ToggleAll" =>
        /\ ~crashed
        /\ filter = prev.filter
        /\ Len(entries) = Len(prev.entries)
        /\ \A k \in 1..Len(prev.entries) :
               entries[k] =
                   IF Matches(prev.filter, prev.entries[k])
                   THEN [description |-> prev.entries[k].description,
                         completed |-> ~is_all_completed(prev.entries, prev.filter),
                         editing |-> prev.entries[k].editing]
                   ELSE prev.entries[k]
        /\ (prev.filter = "All" /\ Len(prev.entries) > 0) =>
               is_all_completed(entries, filter) =
                   ~is_all_completed(prev.entries, prev.filter)

\* ToggleAll under All over two completed entries has cleared both, and
\* is_all_completed() has gone from true to false.
C18_Witness ==
    /\ last.op = "ToggleAll"
    /\ prev.filter = "All"
    /\ Len(prev.entries) = 2
    /\ is_all_completed(prev.entries, prev.filter)
    /\ ~entries[1].completed
    /\ ~entries[2].completed
    /\ ~is_all_completed(entries, filter)

\* ------------------------------------------------------------------ C15

\* The entries of es at the positions in keep, in the order of es.
KeepAt(es, keep) ==
    LET at == SelectSeq([k \in 1..Len(es) |-> k], LAMBDA k : k \in keep)
    IN  [j \in 1..Len(at) |-> es[at[j]]]

C17_ToggleEditThenEditRestores ==
    [][(/\ InRangeCall("ToggleEdit")
        /\ ~crashed
        /\ \E k \in 1..Len(prev.entries) :
               /\ IsNth(prev.entries, prev.filter, k, last.idx)
               /\ ~prev.entries[k].editing
        /\ last'.op = "Edit"
        /\ last'.idx = last.idx)
       => (~crashed' /\ entries' = prev.entries)]_vars

====
